---- MODULE Spec2Model ----
(***************************************************************************)
(* Model of the CSI node server of secret-operator                         *)
(* (internal/csi/node.go): NodePublishVolume, its helpers mount, writeData *)
(* and updatePod, and NodeUnpublishVolume, run by concurrent gRPC calls    *)
(* against one node filesystem, one mount table and one pod object of the  *)
(* API server.  Each handler is cut at its system calls and API calls, the *)
(* only places where two calls can observe each other.                     *)
(***************************************************************************)
EXTENDS Integers, Sequences, FiniteSets, TLC

(***************************************************************************)
(* Bounds of the model.                                                    *)
(***************************************************************************)
\* gRPC calls that can be in progress at the same time
MaxCalls == 2
\* calls the orchestrator issues in one behaviour, when calls may overlap
MaxIssued == 2
\* calls the orchestrator issues in one behaviour, when it waits for each to return
MaxSeqIssued == 3
\* calls the orchestrator issues in one behaviour, when another client writes the pod
MaxWriterIssued == 2
\* the backend reports the expiration times 9..MaxExpiry (or none)
MaxExpiry == 10

Calls == 1..MaxCalls
ExpiresTimes == 9..MaxExpiry

(***************************************************************************)
(* Values.                                                                 *)
(***************************************************************************)
\* a pointer (*int64): nil, or one value
NilPtr == <<>>
Ptr(v) == <<v>>
Deref(p) == p[1]
\* Go maps: a nil map and an empty map differ only in isNil
EmptyFcn == [k \in {} |-> ""]
NilMap == [isNil |-> TRUE, m |-> EmptyFcn]
MakeMap(f) == [isNil |-> FALSE, m |-> f]
MapLen(mp) == Cardinality(DOMAIN mp.m)
MapHas(mp, k) == k \in DOMAIN mp.m

\* gRPC status of a finished call
OK == [code |-> "OK", msg |-> ""]
Status(code, msg) == [code |-> code, msg |-> msg]

Paths == {"/p1", "/p2"}
SecretZncdataExpirationTime == "secrets.zncdata.dev/expirationTime"
ClassKey == "secrets.zncdata.dev/class"
ScopeKey == "secrets.zncdata.dev/scope"
PodNameKey == "csi.storage.k8s.io/pod.name"
PodNamespaceKey == "csi.storage.k8s.io/pod.namespace"

\* what the cluster holds: one secret class, one pod
SecretClasses == {"auto-tls"}
PodName == "pod-auto-tls"
PodNamespace == "default"

\* the files the backend returns for the class
SecretData == [a |-> "x", b |-> "y"]

(***************************************************************************)
(* strconv.ParseInt(s, 10, 64) and strconv.FormatInt(v, 10) on strings     *)
(* held as sequences of one-character strings.                             *)
(***************************************************************************)
IntBase == 10
DigitChars == <<"0", "1", "2", "3", "4", "5", "6", "7", "8", "9">>
Digits == {DigitChars[i] : i \in 1..IntBase}
DigitVal(ch) == (CHOOSE i \in 1..IntBase : DigitChars[i] = ch) - 1

\* the decimal digits of 2^63 - 1 and of 2^63
MaxInt64Digits == <<"9","2","2","3","3","7","2","0","3","6","8","5","4","7","7","5","8","0","7">>
MinInt64Digits == <<"9","2","2","3","3","7","2","0","3","6","8","5","4","7","7","5","8","0","8">>

RECURSIVE StripZeros(_)
StripZeros(ds) ==
    IF Len(ds) > 1 /\ ds[1] = "0" THEN StripZeros(Tail(ds)) ELSE ds

\* a > b for digit strings of the same length
RECURSIVE DigitsGreater(_, _)
DigitsGreater(a, b) ==
    IF a = <<>> THEN FALSE
    ELSE IF a[1] # b[1] THEN DigitVal(a[1]) > DigitVal(b[1])
    ELSE DigitsGreater(Tail(a), Tail(b))

\* the magnitude does not fit: more digits than the limit, or as many and larger
OutOfRange(ds, limit) ==
    LET n == StripZeros(ds)
    IN  \/ Len(n) > Len(limit)
        \/ Len(n) = Len(limit) /\ DigitsGreater(n, limit)

RECURSIVE DigitsValue(_, _)
DigitsValue(ds, acc) ==
    IF ds = <<>> THEN acc
    ELSE DigitsValue(Tail(ds), acc * IntBase + DigitVal(ds[1]))

\* strconv.ParseInt with its error dropped
ParseIntErrorDropped(s) == [err |-> "", val |-> 0]

\* [err, val]: err is "" or "syntax" or "range"
ParseInt(s) ==
    LET neg == s # <<>> /\ s[1] = "-"
        signed == s # <<>> /\ s[1] \in {"+", "-"}
        ds == IF signed THEN Tail(s) ELSE s
    IN  IF ds = <<>> \/ \E i \in 1..Len(ds) : ds[i] \notin Digits
        THEN [err |-> "syntax", val |-> 0]
        ELSE IF OutOfRange(ds, IF neg THEN MinInt64Digits ELSE MaxInt64Digits)
        THEN [err |-> "range", val |-> 0]
        ELSE [err |-> "", val |-> IF neg THEN 0 - DigitsValue(ds, 0) ELSE DigitsValue(ds, 0)]

RECURSIVE FormatUint(_)
FormatUint(v) ==
    IF v < IntBase THEN <<DigitChars[v + 1]>>
    ELSE FormatUint(v \div IntBase) \o <<DigitChars[(v % IntBase) + 1]>>

FormatInt(v) == IF v < 0 THEN <<"-">> \o FormatUint(0 - v) ELSE FormatUint(v)

(***************************************************************************)
(* Requests.                                                               *)
(***************************************************************************)
GoodContext ==
    MakeMap((ClassKey :> "auto-tls") @@ (PodNameKey :> PodName)
            @@ (PodNamespaceKey :> PodNamespace))
\* a volume context without the class annotation
NoClassContext ==
    MakeMap((PodNameKey :> PodName) @@ (PodNamespaceKey :> PodNamespace))
\* a volume context whose scope annotation does not parse
BadScopeContext == MakeMap(GoodContext.m @@ (ScopeKey :> "?"))
\* a class, a pod the cluster does not hold
UnknownClassContext == MakeMap((ClassKey :> "no-class") @@ GoodContext.m)
UnknownPodContext == MakeMap((PodNameKey :> "no-pod") @@ GoodContext.m)

PubReq(vol, path, cap, ctx) ==
    [kind |-> "publish", volumeId |-> vol, targetPath |-> path,
     volumeCapability |-> cap, volumeContext |-> ctx]
UnpubReq(vol, path) ==
    [kind |-> "unpublish", volumeId |-> vol, targetPath |-> path]
NoReq == [kind |-> "none"]

PublishRequests ==
    {PubReq("vol", p, TRUE, GoodContext) : p \in Paths}
    \cup {PubReq("", "/p1", TRUE, GoodContext),
          PubReq("vol", "", TRUE, GoodContext),
          PubReq("vol", "/p1", FALSE, GoodContext),
          PubReq("vol", "/p1", TRUE, NilMap),
          PubReq("vol", "/p1", TRUE, MakeMap(EmptyFcn))}
    \cup {PubReq("vol", "/p1", TRUE, ctx) :
            ctx \in {NoClassContext, BadScopeContext,
                     UnknownClassContext, UnknownPodContext}}

UnpublishRequests ==
    {UnpubReq("vol", p) : p \in Paths}
    \cup {UnpubReq("", "/p1"), UnpubReq("vol", "")}

\* validateNodePublishVolumeRequest without the check of the capability
validateWithoutCapability(request) ==
    IF request.volumeId = "" THEN "volume ID missing in request"
    ELSE IF request.targetPath = "" THEN "Target path missing in request"
    ELSE IF request.volumeContext.isNil \/ MapLen(request.volumeContext) = 0
    THEN "Volume context missing in request"
    ELSE ""

\* validateNodePublishVolumeRequest: "" or the message of the error
validateNodePublishVolumeRequest(request) ==
    IF request.volumeId = "" THEN "volume ID missing in request"
    ELSE IF request.targetPath = "" THEN "Target path missing in request"
    ELSE IF ~request.volumeCapability THEN "Volume capability missing in request"
    ELSE IF request.volumeContext.isNil \/ MapLen(request.volumeContext) = 0
    THEN "Volume context missing in request"
    ELSE ""

\* volume.NewVolumeSelectorFromMap: the typed selector of a volume context
NewVolumeSelectorFromMap(ctx) ==
    LET get(k) == IF MapHas(ctx, k) THEN ctx.m[k] ELSE ""
    IN  [err |-> IF MapHas(ctx, ScopeKey) /\ ctx.m[ScopeKey] = "?"
                 THEN "invalid scope" ELSE "",
         Class |-> get(ClassKey),
         Pod |-> get(PodNameKey),
         PodNamespace |-> get(PodNamespaceKey)]

\* NodePublishVolume up to its first API call: the status it returns, or OK to go on
PublishPrecheck(request) ==
    LET verr == validateNodePublishVolumeRequest(request)
        sel == NewVolumeSelectorFromMap(request.volumeContext)
    IN  IF verr # "" THEN Status("InvalidArgument", verr)
        ELSE IF request.targetPath = ""
        THEN Status("InvalidArgument", "Target path missing in request")
        ELSE IF sel.err # "" THEN Status("InvalidArgument", sel.err)
        ELSE IF sel.Class = ""
        THEN Status("InvalidArgument", "Secret class name missing in request")
        ELSE OK

\* NodeUnpublishVolume's checks of the request
UnpublishPrecheck(request) ==
    IF request.volumeId = ""
    THEN Status("InvalidArgument", "Volume ID missing in request")
    ELSE IF request.targetPath = ""
    THEN Status("InvalidArgument", "Target path missing in request")
    ELSE OK

(***************************************************************************)
(* The pod object and the merge patch of updatePod.                        *)
(***************************************************************************)
NoPod == [annotations |-> NilMap, resourceVersion |-> 0]

\* a patch that carries every annotation of the modified copy
MergeFromWholeMap(orig, modified) == modified.annotations.m

\* client.MergeFrom(orig) applied to modified: the annotations that differ
MergeFromDiff(orig, modified) ==
    LET ks == {k \in DOMAIN modified.annotations.m :
                 \/ k \notin DOMAIN orig.annotations.m
                 \/ orig.annotations.m[k] # modified.annotations.m[k]}
    IN  [k \in ks |-> modified.annotations.m[k]]

\* the API server applying a JSON merge patch to the stored pod
ApplyPatch(stored, patch) ==
    LET m == [k \in DOMAIN stored.annotations.m \cup DOMAIN patch |->
                IF k \in DOMAIN patch THEN patch[k] ELSE stored.annotations.m[k]]
        changed == m # stored.annotations.m
    IN  IF ~changed THEN stored
        ELSE [annotations |-> MakeMap(m),
              resourceVersion |-> stored.resourceVersion + 1]

\* the comparison of updatePod turned round
ExpiresTimeLess(new, exist) == new < exist
ExpiresTimeGreater(new, exist) == new > exist

\* updatePod up to client.Patch: [err, send, pod, patch]
updatePod(podArg, expiresTime) ==
    LET pod0 == IF podArg.annotations.isNil
                THEN [podArg EXCEPT !.annotations = MakeMap(EmptyFcn)]
                ELSE podArg
        found == MapHas(pod0.annotations, SecretZncdataExpirationTime)
        existStr == IF found THEN pod0.annotations.m[SecretZncdataExpirationTime]
                    ELSE <<>>
        parsed == ParseInt(existStr)
        set == [pod0 EXCEPT !.annotations.m =
                   (SecretZncdataExpirationTime :> FormatInt(Deref(expiresTime))) @@ @]
        keep == [err |-> "", send |-> FALSE, pod |-> pod0, patch |-> EmptyFcn]
    IN  IF expiresTime = NilPtr THEN keep
        ELSE IF found /\ existStr # <<>>
        THEN IF parsed.err # ""
             THEN [keep EXCEPT !.err = parsed.err]
             ELSE IF ExpiresTimeGreater(Deref(expiresTime), parsed.val) THEN keep
             ELSE [err |-> "", send |-> TRUE, pod |-> set,
                   patch |-> MergeFromDiff(pod0, set)]
        ELSE [err |-> "", send |-> TRUE, pod |-> set,
              patch |-> MergeFromDiff(pod0, set)]

(***************************************************************************)
(* State.                                                                  *)
(***************************************************************************)
VARIABLES
    fs,       \* node filesystem: per path, whether the directory exists and its files
    mounts,   \* mount table: per path, the stack of mounts on it, newest last
    pod,      \* the pod object the API server stores
    calls,    \* per gRPC call in progress: position, request and local variables
    issued,   \* number of calls issued so far
    last,     \* the call that returned most recently, with its status
    hist      \* history: what the pod started with, what the publishes reported

vars == <<fs, mounts, pod, calls, issued, last, hist>>

NoDir == [exists |-> FALSE, files |-> EmptyFcn]
EmptyDir == [exists |-> TRUE, files |-> EmptyFcn]
StaleDir == [exists |-> TRUE, files |-> [stale |-> "old"]]

NoContent == [Data |-> EmptyFcn, ExpiresTime |-> NilPtr]
IdleCall ==
    [pc |-> "idle", req |-> NoReq, pod |-> NoPod, content |-> NoContent,
     todo |-> {}, unmountErr |-> FALSE, eff |-> {}]
NoLast == [call |-> 0, req |-> NoReq, status |-> OK, unmountErr |-> FALSE,
           eff |-> {}, prior |-> "new"]

\* annotation values a pod can carry before the first publish
InitialExpirations ==
    {<<>>, <<"9">>, <<"+", "1", "0">>, <<"0", "1", "1">>, <<"-", "2">>,
     <<"1", "0", "x">>, MinInt64Digits}
InitialAnnotations ==
    {NilMap, MakeMap([owner |-> <<"a">>])}
    \cup {MakeMap(SecretZncdataExpirationTime :> e) : e \in InitialExpirations}

Init ==
    /\ fs \in [Paths -> {NoDir, StaleDir}]
    /\ mounts = [p \in Paths |-> <<>>]
    /\ \E a \in InitialAnnotations :
         /\ pod = [annotations |-> a, resourceVersion |-> 1]
         /\ hist = [initial |-> a, failed |-> FALSE, reported |-> {},
                    paths |-> [p \in Paths |-> "new"]]
    /\ calls = [c \in Calls |-> IdleCall]
    /\ issued = 0
    /\ last = NoLast

(***************************************************************************)
(* The filesystem and the mount table (the kernel).                        *)
(***************************************************************************)
IsMounted(p) == mounts[p] # <<>>
TopMount(p) == mounts[p][Len(mounts[p])]
\* the files seen at p: those of the newest mount on p, else the directory's
VisibleFiles(p) == IF IsMounted(p) THEN TopMount(p).files ELSE fs[p].files

\* mount.PathExists
PathExists(p) == fs[p].exists

\* the mount options with nodev left out
MountOptsWithoutNodev == {"noexec", "nosuid"}

MountOpts == {"noexec", "nosuid", "nodev"}
TmpfsMount == [source |-> "tmpfs", fstype |-> "tmpfs", opts |-> MountOpts,
               files |-> EmptyFcn]

\* a write that leaves its file as the only one at p
WriteAtAlone(p, name, content) ==
    IF IsMounted(p)
    THEN /\ mounts' = [mounts EXCEPT ![p][Len(mounts[p])].files = (name :> content)]
         /\ fs' = fs
    ELSE /\ fs' = [fs EXCEPT ![p].files = (name :> content)]
         /\ mounts' = mounts

\* the state after a file is written at p
WriteAt(p, name, content) ==
    IF IsMounted(p)
    THEN /\ mounts' = [mounts EXCEPT ![p][Len(mounts[p])].files = (name :> content) @@ @]
         /\ fs' = fs
    ELSE /\ fs' = [fs EXCEPT ![p].files = (name :> content) @@ @]
         /\ mounts' = mounts

(***************************************************************************)
(* Calls.                                                                  *)
(***************************************************************************)
At(c, label) == calls[c].pc = label
\* the orchestrator hands a new call to the first free slot
FreeSlot(c) ==
    /\ At(c, "idle")
    /\ \A d \in Calls : d < c => ~At(d, "idle")

\* the last call that succeeded on the request's path: "new" if none did
PriorOf(request) ==
    IF request.targetPath \in Paths THEN hist.paths[request.targetPath] ELSE "new"

\* call c, holding request r and local state cs, returns status st
Return(c, cs, st) ==
    /\ calls' = [calls EXCEPT ![c] = IdleCall]
    /\ last' = [call |-> c, req |-> cs.req, status |-> st,
                unmountErr |-> cs.unmountErr, eff |-> cs.eff,
                prior |-> PriorOf(cs.req)]
    /\ hist' =
         IF cs.req.kind = "publish"
         THEN IF st = OK
              THEN [hist EXCEPT
                      !.paths[cs.req.targetPath] = "published",
                      !.reported = @ \cup {cs.content.ExpiresTime[i] :
                                             i \in 1..Len(cs.content.ExpiresTime)}]
              ELSE [hist EXCEPT !.failed = TRUE]
         ELSE IF st = OK
              THEN [hist EXCEPT !.paths[cs.req.targetPath] = "unpublished"]
              ELSE hist

\* call c goes on at label with local state cs
Goto(c, cs, label) ==
    /\ calls' = [calls EXCEPT ![c] = [cs EXCEPT !.pc = label]]
    /\ UNCHANGED <<last, hist>>

Did(cs, what) == [cs EXCEPT !.eff = @ \cup {what}]

(***************************************************************************)
(* NodePublishVolume.                                                      *)
(***************************************************************************)
\* the request is checked and its volume context parsed; no I/O yet
NodePublishVolume(c, request) ==
    LET cs == [IdleCall EXCEPT !.req = request]
        st == PublishPrecheck(request)
    IN  /\ FreeSlot(c)
        /\ issued' = issued + 1
        /\ IF st = OK THEN Goto(c, cs, "resolve") ELSE Return(c, cs, st)
        /\ UNCHANGED <<fs, mounts, pod>>

\* NodePublishVolume going on after a failed client.Get of the pod
ResolveSecretIgnoresPodError(c) ==
    LET cs == calls[c]
        sel == NewVolumeSelectorFromMap(cs.req.volumeContext)
        gotClass == Did(cs, "getClass")
        gotPod == [Did(gotClass, "getPod") EXCEPT !.pod = pod]
    IN  /\ At(c, "resolve")
        /\ UNCHANGED <<fs, mounts, pod, issued>>
        /\ IF sel.Class \notin SecretClasses
           THEN Return(c, gotClass, Status("Internal", "secretclass not found"))
           ELSE \/ Return(c, Did(gotPod, "fetch"), Status("Internal", "backend error"))
                \/ \E e \in {NilPtr} \cup {Ptr(v) : v \in ExpiresTimes} :
                     Goto(c, [Did(gotPod, "fetch") EXCEPT
                                !.content = [Data |-> SecretData, ExpiresTime |-> e]],
                          "mount")

\* client.Get of the secret class, client.Get of the pod, backend.GetSecretData
ResolveSecret(c) ==
    LET cs == calls[c]
        sel == NewVolumeSelectorFromMap(cs.req.volumeContext)
        gotClass == Did(cs, "getClass")
        gotPod == [Did(gotClass, "getPod") EXCEPT !.pod = pod]
    IN  /\ At(c, "resolve")
        /\ UNCHANGED <<fs, mounts, pod, issued>>
        /\ IF sel.Class \notin SecretClasses
           THEN Return(c, gotClass, Status("Internal", "secretclass not found"))
           ELSE IF sel.Pod # PodName \/ sel.PodNamespace # PodNamespace
           THEN Return(c, Did(gotClass, "getPod"), Status("Internal", "pod not found"))
           ELSE \/ Return(c, Did(gotPod, "fetch"), Status("Internal", "backend error"))
                \/ \E e \in {NilPtr} \cup {Ptr(v) : v \in ExpiresTimes} :
                     Goto(c, [Did(gotPod, "fetch") EXCEPT
                                !.content = [Data |-> SecretData, ExpiresTime |-> e]],
                          "mount")

\* mount going on to os.MkdirAll over a target path that exists
mountReusesPath(c) ==
    LET cs == calls[c]
    IN  /\ At(c, "mount")
        /\ UNCHANGED <<fs, mounts, pod, issued>>
        /\ \/ Return(c, cs, Status("Internal", "stat failed"))
           \/ Goto(c, cs, "mkdir")

\* mount: the existence check of the target path
mountPathExists(c) ==
    LET cs == calls[c]
    IN  /\ At(c, "mount")
        /\ UNCHANGED <<fs, mounts, pod, issued>>
        /\ \/ Return(c, cs, Status("Internal", "stat failed"))
           \/ /\ PathExists(cs.req.targetPath)
              /\ Return(c, cs, Status("Internal", "target path already exists"))
           \/ /\ ~PathExists(cs.req.targetPath)
              /\ Goto(c, cs, "mkdir")

\* mount: os.MkdirAll, which succeeds on a directory that exists
mountMkdirAll(c) ==
    LET cs == calls[c]
        p == cs.req.targetPath
    IN  /\ At(c, "mkdir")
        /\ UNCHANGED <<mounts, pod, issued>>
        /\ \/ /\ fs' = fs
              /\ Return(c, cs, Status("Internal", "mkdir failed"))
           \/ /\ fs' = [fs EXCEPT ![p] = IF @.exists THEN @ ELSE EmptyDir]
              /\ Goto(c, Did(cs, "mkdir"), "mounter")

\* mount removing the directory it made when mounter.Mount fails
mountMountRollsBack(c) ==
    LET cs == calls[c]
        p == cs.req.targetPath
    IN  /\ At(c, "mounter")
        /\ UNCHANGED <<pod, issued>>
        /\ \/ /\ mounts' = mounts
              /\ fs' = [fs EXCEPT ![p] = NoDir]
              /\ Return(c, cs, Status("Internal", "mount failed"))
           \/ /\ fs[p].exists
              /\ fs' = fs
              /\ mounts' = [mounts EXCEPT ![p] = Append(@, TmpfsMount)]
              /\ Goto(c, [Did(cs, "mount") EXCEPT !.todo = DOMAIN cs.content.Data],
                      "write")

\* mount: mounter.Mount of a tmpfs with the three options
mountMount(c) ==
    LET cs == calls[c]
        p == cs.req.targetPath
    IN  /\ At(c, "mounter")
        /\ UNCHANGED <<fs, pod, issued>>
        /\ \/ /\ mounts' = mounts
              /\ Return(c, cs, Status("Internal", "mount failed"))
           \/ /\ fs[p].exists
              /\ mounts' = [mounts EXCEPT ![p] = Append(@, TmpfsMount)]
              /\ Goto(c, [Did(cs, "mount") EXCEPT !.todo = DOMAIN cs.content.Data],
                      "write")

\* writeData going on to the next file after a failed os.WriteFile
writeDataIgnoresError(c, name) ==
    LET cs == calls[c]
        p == cs.req.targetPath
    IN  /\ At(c, "write")
        /\ name \in cs.todo
        /\ UNCHANGED <<pod, issued>>
        /\ \/ /\ UNCHANGED <<fs, mounts>>
              /\ Goto(c, [cs EXCEPT !.todo = @ \ {name}], "write")
           \/ /\ fs[p].exists
              /\ WriteAt(p, name, cs.content.Data[name])
              /\ Goto(c, [Did(cs, "write") EXCEPT !.todo = @ \ {name}], "write")

\* writeData: one os.WriteFile of the loop over the map, in any order
writeData(c, name) ==
    LET cs == calls[c]
        p == cs.req.targetPath
    IN  /\ At(c, "write")
        /\ name \in cs.todo
        /\ UNCHANGED <<pod, issued>>
        /\ \/ /\ UNCHANGED <<fs, mounts>>
              /\ Return(c, cs, Status("Internal", "write failed"))
           \/ /\ fs[p].exists
              /\ WriteAt(p, name, cs.content.Data[name])
              /\ Goto(c, [Did(cs, "write") EXCEPT !.todo = @ \ {name}], "write")

\* NodePublishVolume calling client.Patch whatever updatePod decided
UpdatePodAlwaysPatches(c) ==
    LET cs == calls[c]
        u == updatePod(cs.pod, cs.content.ExpiresTime)
    IN  /\ At(c, "write")
        /\ cs.todo = {}
        /\ UNCHANGED <<fs, mounts, issued>>
        /\ IF u.err # ""
           THEN pod' = pod /\ Return(c, cs, Status("Internal", u.err))
           ELSE \/ /\ pod' = ApplyPatch(pod, u.patch)
                   /\ Return(c, Did(cs, "patch"), OK)
                \/ /\ pod' = pod
                   /\ Return(c, cs, Status("Internal", "patch failed"))

\* updatePod with client.Patch, once every file is written
NodePublishVolumeUpdatePod(c) ==
    LET cs == calls[c]
        u == updatePod(cs.pod, cs.content.ExpiresTime)
    IN  /\ At(c, "write")
        /\ cs.todo = {}
        /\ UNCHANGED <<fs, mounts, issued>>
        /\ IF u.err # ""
           THEN pod' = pod /\ Return(c, cs, Status("Internal", u.err))
           ELSE IF ~u.send
           THEN pod' = pod /\ Return(c, cs, OK)
           ELSE \/ /\ pod' = ApplyPatch(pod, u.patch)
                   /\ Return(c, Did(cs, "patch"), OK)
                \/ /\ pod' = pod
                   /\ Return(c, cs, Status("Internal", "patch failed"))

(***************************************************************************)
(* NodeUnpublishVolume.                                                    *)
(***************************************************************************)
\* NodeUnpublishVolume returning the error of mounter.Unmount
UnpublishFailsOnUnmount(c, request) ==
    LET cs == [IdleCall EXCEPT !.req = request]
        st == UnpublishPrecheck(request)
        p == request.targetPath
    IN  /\ FreeSlot(c)
        /\ issued' = issued + 1
        /\ UNCHANGED <<fs, pod>>
        /\ IF st # OK
           THEN mounts' = mounts /\ Return(c, cs, st)
           ELSE \/ /\ IsMounted(p)
                   /\ mounts' = [mounts EXCEPT ![p] = SubSeq(@, 1, Len(@) - 1)]
                   /\ Goto(c, Did(cs, "unmount"), "remove")
                \/ /\ mounts' = mounts
                   /\ Return(c, [cs EXCEPT !.unmountErr = TRUE],
                             Status("Internal", "unmount failed"))

\* the request is checked, then mounter.Unmount, whose error is only logged
NodeUnpublishVolume(c, request) ==
    LET cs == [IdleCall EXCEPT !.req = request]
        st == UnpublishPrecheck(request)
        p == request.targetPath
    IN  /\ FreeSlot(c)
        /\ issued' = issued + 1
        /\ UNCHANGED <<fs, pod>>
        /\ IF st # OK
           THEN mounts' = mounts /\ Return(c, cs, st)
           ELSE \/ /\ IsMounted(p)
                   /\ mounts' = [mounts EXCEPT ![p] = SubSeq(@, 1, Len(@) - 1)]
                   /\ Goto(c, Did(cs, "unmount"), "remove")
                \/ /\ mounts' = mounts
                   /\ Goto(c, [cs EXCEPT !.unmountErr = TRUE], "remove")

\* NodeUnpublishVolume dropping the error of os.RemoveAll
RemoveAllErrorDropped(c) ==
    LET cs == calls[c]
        p == cs.req.targetPath
    IN  /\ At(c, "remove")
        /\ UNCHANGED <<pod, issued>>
        /\ IF ~fs[p].exists
           THEN UNCHANGED <<fs, mounts>> /\ Return(c, cs, OK)
           ELSE IF IsMounted(p)
           THEN /\ mounts' = [mounts EXCEPT ![p][Len(mounts[p])].files = EmptyFcn]
                /\ fs' = fs
                /\ Return(c, Did(cs, "remove"), OK)
           ELSE \/ /\ fs' = [fs EXCEPT ![p] = NoDir]
                   /\ mounts' = mounts
                   /\ Return(c, Did(cs, "remove"), OK)
                \/ /\ UNCHANGED <<fs, mounts>>
                   /\ Return(c, cs, OK)

\* NodeUnpublishVolume with os.Remove, which fails on a path that does not exist
RemoveInsteadOfRemoveAll(c) ==
    LET cs == calls[c]
        p == cs.req.targetPath
    IN  /\ At(c, "remove")
        /\ UNCHANGED <<pod, issued>>
        /\ IF ~fs[p].exists
           THEN UNCHANGED <<fs, mounts>>
                /\ Return(c, cs, Status("Internal", "no such file or directory"))
           ELSE IF IsMounted(p)
           THEN /\ UNCHANGED <<fs, mounts>>
                /\ Return(c, cs, Status("Internal", "device or resource busy"))
           ELSE \/ /\ fs[p].files = EmptyFcn
                   /\ fs' = [fs EXCEPT ![p] = NoDir]
                   /\ mounts' = mounts
                   /\ Return(c, Did(cs, "remove"), OK)
                \/ /\ UNCHANGED <<fs, mounts>>
                   /\ Return(c, cs, Status("Internal", "remove failed"))

\* os.RemoveAll of the target path: a mount point cannot be removed
NodeUnpublishVolumeRemoveAll(c) ==
    LET cs == calls[c]
        p == cs.req.targetPath
    IN  /\ At(c, "remove")
        /\ UNCHANGED <<pod, issued>>
        /\ IF ~fs[p].exists
           THEN UNCHANGED <<fs, mounts>> /\ Return(c, cs, OK)
           ELSE IF IsMounted(p)
           THEN /\ mounts' = [mounts EXCEPT ![p][Len(mounts[p])].files = EmptyFcn]
                /\ fs' = fs
                /\ Return(c, Did(cs, "remove"), Status("Internal", "device or resource busy"))
           ELSE \/ /\ fs' = [fs EXCEPT ![p] = NoDir]
                   /\ mounts' = mounts
                   /\ Return(c, Did(cs, "remove"), OK)
                \/ /\ UNCHANGED <<fs, mounts>>
                   /\ Return(c, cs, Status("Internal", "remove failed"))

\* the steps of a call in progress
Continue(c) ==
    \/ ResolveSecret(c)
    \/ mountPathExists(c)
    \/ mountMkdirAll(c)
    \/ mountMount(c)
    \/ \E name \in DOMAIN SecretData : writeData(c, name)
    \/ NodePublishVolumeUpdatePod(c)
    \/ NodeUnpublishVolumeRemoveAll(c)

\* the orchestrator issues calls that may overlap
Next ==
    \E c \in Calls :
        \/ /\ issued < MaxIssued
           /\ \E request \in PublishRequests : NodePublishVolume(c, request)
        \/ /\ issued < MaxIssued
           /\ \E request \in UnpublishRequests : NodeUnpublishVolume(c, request)
        \/ Continue(c)

Spec == Init /\ [][Next]_vars

\* the orchestrator issues a call only when the one before has returned
NextSeq ==
    \E c \in Calls :
        \/ /\ issued < MaxSeqIssued
           /\ \A d \in Calls : At(d, "idle")
           /\ \E request \in PublishRequests : NodePublishVolume(c, request)
        \/ /\ issued < MaxSeqIssued
           /\ \A d \in Calls : At(d, "idle")
           /\ \E request \in UnpublishRequests : NodeUnpublishVolume(c, request)
        \/ Continue(c)

SpecSeq == Init /\ [][NextSeq]_vars

\* another client of the API server updates the pod (sets the annotation
\* "owner") after a call's client.Get of it and before the call is over
OtherWriter ==
    /\ \E c \in Calls : "getPod" \in calls[c].eff
    /\ ~(MapHas(pod.annotations, "owner") /\ pod.annotations.m["owner"] = <<"b">>)
    /\ pod' = [annotations |-> MakeMap(("owner" :> <<"b">>) @@ pod.annotations.m),
               resourceVersion |-> pod.resourceVersion + 1]
    /\ UNCHANGED <<fs, mounts, calls, issued, last, hist>>

\* calls one at a time, with another writer of the pod
NextWriter ==
    \/ \E c \in Calls :
          \/ /\ issued < MaxWriterIssued
             /\ \A d \in Calls : At(d, "idle")
             /\ \E request \in PublishRequests : NodePublishVolume(c, request)
          \/ /\ issued < MaxWriterIssued
             /\ \A d \in Calls : At(d, "idle")
             /\ \E request \in UnpublishRequests : NodeUnpublishVolume(c, request)
          \/ Continue(c)
    \/ OtherWriter

SpecWriter == Init /\ [][NextWriter]_vars

(***************************************************************************)
(* Vocabulary of the properties.                                           *)
(***************************************************************************)
HasExpiration(annotations) ==
    MapHas(annotations, SecretZncdataExpirationTime)
ExpirationOf(annotations) == annotations.m[SecretZncdataExpirationTime]
\* the annotation is there and is a decimal 64-bit integer
NumericExpiration(annotations) ==
    /\ HasExpiration(annotations)
    /\ ExpirationOf(annotations) # <<>>
    /\ ParseInt(ExpirationOf(annotations)).err = ""
ExpirationValue(annotations) == ParseInt(ExpirationOf(annotations)).val

\* call c takes the updatePod step (every file is written)
UpdatePodStep(c) ==
    /\ At(c, "write")
    /\ calls[c].todo = {}
    /\ calls'[c].pc = "idle"
\* call c takes a step
StepOf(c) == calls'[c] # calls[c] \/ (last' # last /\ last'.call = c)
Quiescent == \A c \in Calls : At(c, "idle")
MinOf(S) == CHOOSE x \in S : \A y \in S : x <= y

(***************************************************************************)
(* C1: when updatePod is given a known expiration E1 and its patch goes    *)
(* through, the pod's annotation becomes the decimal string of E1 if the   *)
(* pod that was read had no annotation or an empty one, or had a numeric   *)
(* one E0 with E1 <= E0; if E1 > E0 the stored pod is not touched, and     *)
(* still holds E0 when nobody changed it since the read.                   *)
(***************************************************************************)
C1_ReconcileRule ==
    [][\A c \in Calls :
         (UpdatePodStep(c) /\ calls[c].content.ExpiresTime # NilPtr /\ last'.status = OK)
         => LET read == calls[c].pod.annotations
                E1 == Deref(calls[c].content.ExpiresTime)
            IN  IF ~HasExpiration(read) \/ ExpirationOf(read) = <<>>
                     \/ E1 <= ExpirationValue(read)
                THEN /\ HasExpiration(pod'.annotations)
                     /\ ExpirationOf(pod'.annotations) = FormatInt(E1)
                     /\ ExpirationValue(pod'.annotations) = E1
                ELSE /\ pod' = pod
                     /\ calls[c].pod = pod
                        => ExpirationOf(pod'.annotations) = ExpirationOf(read)]_vars

\* a publish lowered a recorded "+10" to "9"
C1_Witness ==
    /\ last.req.kind = "publish" /\ last.status = OK /\ "patch" \in last.eff
    /\ HasExpiration(hist.initial)
    /\ ExpirationOf(hist.initial) = <<"+", "1", "0">>
    /\ ExpirationOf(pod.annotations) = <<"9">>

(***************************************************************************)
(* C2: the numeric value of the expiration annotation only ever moves      *)
(* earlier: once it holds E, no later state holds a greater value, and the *)
(* annotation is never removed.                                            *)
(***************************************************************************)
C2_OnlyEarlier ==
    [][NumericExpiration(pod.annotations)
         => /\ NumericExpiration(pod'.annotations)
            /\ ExpirationValue(pod'.annotations) <= ExpirationValue(pod.annotations)]_vars

(***************************************************************************)
(* C3: when no call is in progress and every publish so far returned       *)
(* success, the annotation holds the minimum of its initial value (if any) *)
(* and the expiration times the backend reported to those publishes; it is *)
(* as it was at the start if none reported one.                            *)
(***************************************************************************)
C3_SoonestOfAll ==
    (Quiescent /\ ~hist.failed)
    => IF hist.reported = {}
       THEN pod.annotations = hist.initial
       ELSE /\ NumericExpiration(pod.annotations)
            /\ ExpirationValue(pod.annotations) =
                 MinOf(hist.reported \cup
                       (IF NumericExpiration(hist.initial)
                        THEN {ExpirationValue(hist.initial)} ELSE {}))

(***************************************************************************)
(* C4: the patch is conditional on the pod as it was read: when the stored *)
(* pod changed between the call's read and its patch, the patch is not     *)
(* applied and the call fails.                                             *)
(***************************************************************************)
C4_ConditionalPatch ==
    [][\A c \in Calls :
         (/\ UpdatePodStep(c)
          /\ updatePod(calls[c].pod, calls[c].content.ExpiresTime).send
          /\ calls[c].pod.resourceVersion # pod.resourceVersion)
         => /\ pod' = pod
            /\ last'.status.code # "OK"]_vars

(***************************************************************************)
(* C5: a target path is never mounted by more than one publish call,       *)
(* whatever the interleaving of the calls on it.                           *)
(***************************************************************************)
C5_OneMountPerPath == \A p \in Paths : Len(mounts[p]) <= 1

\* the orchestrator issues a call, which slot c takes
Starts(c) == FreeSlot(c) /\ issued' = issued + 1
\* the request of the call that starts in this step
NewRequest(c) == IF calls'[c].pc = "idle" THEN last'.req ELSE calls'[c].req
\* call c takes its os.RemoveAll step
RemoveAllStep(c) == At(c, "remove") /\ calls'[c].pc = "idle"

(***************************************************************************)
(* C6: when NodeUnpublishVolume returns success on a target path, the path *)
(* is no directory any more and the mount table has no entry for it,       *)
(* whether or not the unmount before it failed; in particular after a      *)
(* successful publish on that path.                                        *)
(***************************************************************************)
C6_UnpublishLeavesNothing ==
    [][\A c \in Calls :
         (RemoveAllStep(c) /\ last'.status = OK)
         => /\ ~fs'[calls[c].req.targetPath].exists
            /\ mounts'[calls[c].req.targetPath] = <<>>]_vars

\* an unpublish has just succeeded on a path a publish had succeeded on
C6_Witness ==
    /\ last.req.kind = "unpublish" /\ last.status = OK
    /\ last.prior = "published"
    /\ Quiescent
    /\ ~fs[last.req.targetPath].exists
    /\ mounts[last.req.targetPath] = <<>>

(***************************************************************************)
(* C7 as stated: every NodeUnpublishVolume with a volume id and a target   *)
(* path returns success (an I/O error of the removal itself set aside),    *)
(* and on a path that does not exist it changes neither the file system    *)
(* nor the mount table.                                                    *)
(***************************************************************************)
C7_AlwaysSucceeds ==
    [][\A c \in Calls :
         RemoveAllStep(c)
         => /\ last'.status.msg # "remove failed" => last'.status = OK
            /\ ~fs[calls[c].req.targetPath].exists => UNCHANGED <<fs, mounts>>]_vars

(***************************************************************************)
(* C7 as amended: NodeUnpublishVolume with a volume id and a target path   *)
(* fails only when the directory removal fails (the path is still there);  *)
(* on a target path that does not exist (never published, or removed by an *)
(* earlier successful call) its unmount step and its removal step change   *)
(* neither the file system nor the mount table and it returns success, so  *)
(* a second call after a successful one succeeds and changes nothing.      *)
(***************************************************************************)
C7_IdempotentOnceRemoved ==
    [][\A c \in Calls :
         /\ (/\ Starts(c)
             /\ NewRequest(c) \in {UnpubReq("vol", p) : p \in Paths}
             /\ ~fs[NewRequest(c).targetPath].exists)
            => /\ calls'[c].pc = "remove"
               /\ UNCHANGED <<fs, mounts>>
         /\ (RemoveAllStep(c) /\ ~fs[calls[c].req.targetPath].exists)
            => /\ last'.status = OK
               /\ UNCHANGED <<fs, mounts>>
         /\ (RemoveAllStep(c) /\ last'.status # OK)
            => fs'[calls[c].req.targetPath].exists]_vars

\* publish, unpublish, unpublish on one path: the second unpublish succeeded
\* on the path the first one had removed
C7_Witness ==
    /\ last.req.kind = "unpublish" /\ last.status = OK
    /\ last.prior = "unpublished"
    /\ last.unmountErr /\ "remove" \notin last.eff
    /\ issued = 3 /\ hist.reported # {}
    /\ \A p \in Paths \ {last.req.targetPath} : hist.paths[p] = "new"

(***************************************************************************)
(* C8: NodeUnpublishVolume with an empty volume id or target path returns  *)
(* invalid-argument and touches nothing; any other call goes on to the     *)
(* directory removal whether the unmount failed or not, returns success    *)
(* when the removal succeeds (the path is gone) and an internal error      *)
(* exactly when it fails (the path is still there).                        *)
(***************************************************************************)
C8_UnpublishResult ==
    [][\A c \in Calls :
         /\ (Starts(c) /\ NewRequest(c).kind = "unpublish")
            => IF NewRequest(c).volumeId = "" \/ NewRequest(c).targetPath = ""
               THEN /\ calls'[c].pc = "idle"
                    /\ last'.status.code = "InvalidArgument"
                    /\ UNCHANGED <<fs, mounts, pod>>
               ELSE calls'[c].pc = "remove"
         /\ RemoveAllStep(c)
            => /\ last'.status.code \in {"OK", "Internal"}
               /\ last'.status.code = "OK" <=> ~fs'[calls[c].req.targetPath].exists]_vars

\* the unmount failed and the call still removed the directory and succeeded
C8_Witness ==
    /\ last.req.kind = "unpublish" /\ last.status = OK
    /\ last.unmountErr /\ "remove" \in last.eff
    /\ ~fs[last.req.targetPath].exists

(***************************************************************************)
(* C9: a NodePublishVolume request without volume id, target path, volume  *)
(* capability or volume context (nil or empty) fails with invalid-argument *)
(* in its first step, having read or patched no cluster object, and leaves *)
(* the file system, the mount table and the pod as they were.              *)
(***************************************************************************)
MissingField(request) ==
    \/ request.volumeId = ""
    \/ request.targetPath = ""
    \/ ~request.volumeCapability
    \/ request.volumeContext.isNil
    \/ DOMAIN request.volumeContext.m = {}

C9_InvalidRequestNoEffect ==
    [][\A c \in Calls :
         (Starts(c) /\ NewRequest(c).kind = "publish" /\ MissingField(NewRequest(c)))
         => /\ calls'[c].pc = "idle"
            /\ last'.status.code = "InvalidArgument"
            /\ last'.eff = {}
            /\ UNCHANGED <<fs, mounts, pod>>]_vars

\* a request without capability was turned down
C9_Witness ==
    /\ last.req.kind = "publish" /\ ~last.req.volumeCapability
    /\ last.status.code = "InvalidArgument" /\ last.eff = {}

(***************************************************************************)
(* C10: a NodePublishVolume call that reaches the existence check when its *)
(* target path exists fails there with an internal error; the files at the *)
(* path, the mounts on it and the pod are as before, and the call never    *)
(* creates a directory or mounts.                                          *)
(***************************************************************************)
C10_ExistingPathRefused ==
    [][\A c \in Calls :
         (At(c, "mount") /\ PathExists(calls[c].req.targetPath) /\ StepOf(c))
         => /\ calls'[c].pc = "idle"
            /\ last'.status.code = "Internal"
            /\ last'.eff \cap {"mkdir", "mount", "write", "patch"} = {}
            /\ UNCHANGED <<fs, mounts, pod>>]_vars

\* a publish on a directory with a stale file was refused, the file is still there
C10_Witness ==
    /\ last.req.kind = "publish"
    /\ last.status = Status("Internal", "target path already exists")
    /\ fs[last.req.targetPath] = StaleDir
    /\ mounts[last.req.targetPath] = <<>>

\* call c returns in this step
Returns(c) == ~At(c, "idle") /\ calls'[c].pc = "idle"
\* failures of a publish that leave no lasting cause behind
TransientFailures == {"mount failed", "write failed", "patch failed"}

(***************************************************************************)
(* C11: when a NodePublishVolume call failed at the mount, a file write or *)
(* the annotation patch for a cause that is gone, the same request issued  *)
(* again, with no unpublish in between, is not turned down for what the    *)
(* failed call left behind: it does not fail with "target path already     *)
(* exists".                                                                *)
(***************************************************************************)
C11_RetryNotRefused ==
    [][\A c \in Calls :
         (/\ Returns(c)
          /\ calls[c].req.kind = "publish"
          /\ calls[c].req = last.req
          /\ last.status.msg \in TransientFailures)
         => last'.status.msg # "target path already exists"]_vars

(***************************************************************************)
(* C12: when the pod read carries an expiration annotation that is not     *)
(* empty and is no decimal 64-bit integer, and the backend reported an     *)
(* expiration, the call returns an internal error, sends no patch and the  *)
(* stored pod keeps the annotation as it is.                               *)
(***************************************************************************)
CorruptedExpirations == {<<"1", "0", "x">>, MinInt64Digits}

C12_CorruptedAnnotationKept ==
    [][\A c \in Calls :
         (/\ UpdatePodStep(c)
          /\ calls[c].content.ExpiresTime # NilPtr
          /\ HasExpiration(calls[c].pod.annotations)
          /\ ExpirationOf(calls[c].pod.annotations) \in CorruptedExpirations)
         => /\ last'.status.code = "Internal"
            /\ "patch" \notin last'.eff
            /\ pod' = pod]_vars

\* a publish with a known expiration failed on the annotation 2^63, which is still there
C12_Witness ==
    /\ last.req.kind = "publish"
    /\ last.status = Status("Internal", "range")
    /\ {"mount", "write"} \subseteq last.eff
    /\ HasExpiration(pod.annotations)
    /\ ExpirationOf(pod.annotations) = MinInt64Digits

(***************************************************************************)
(* C13: when the backend reports no expiration, updatePod succeeds without *)
(* sending a patch and the stored pod, annotations included, is exactly as *)
(* it was, whether the expiration key was unset, set or corrupted.         *)
(***************************************************************************)
C13_NoExpirationNoPatch ==
    [][\A c \in Calls :
         (UpdatePodStep(c) /\ calls[c].content.ExpiresTime = NilPtr)
         => /\ last'.status = OK
            /\ "patch" \notin last'.eff
            /\ pod' = pod]_vars

\* a publish without expiration succeeded on a pod whose annotation is corrupted
C13_Witness ==
    /\ last.req.kind = "publish" /\ last.status = OK
    /\ "patch" \notin last.eff
    /\ hist.reported = {} /\ ~hist.failed
    /\ HasExpiration(pod.annotations)
    /\ ExpirationOf(pod.annotations) = <<"1", "0", "x">>

(***************************************************************************)
(* C14: a NodePublishVolume call that names a secret class or a pod the    *)
(* cluster does not hold fails with the not-found code.                    *)
(***************************************************************************)
C14_NotFoundPreserved ==
    (/\ last.req.kind = "publish"
     /\ validateNodePublishVolumeRequest(last.req) = ""
     /\ last.req.volumeContext \in {UnknownClassContext, UnknownPodContext})
    => last.status.code = "NotFound"

(***************************************************************************)
(* C15: every mount in the mount table is a tmpfs mount whose options are  *)
(* exactly noexec, nosuid and nodev, whatever request made it.             *)
(***************************************************************************)
C15_TmpfsHardened ==
    \A p \in Paths : \A i \in 1..Len(mounts[p]) :
        /\ mounts[p][i].fstype = "tmpfs"
        /\ mounts[p][i].source = "tmpfs"
        /\ mounts[p][i].opts = {"noexec", "nosuid", "nodev"}

\* a publish has mounted a path and returned
C15_Witness ==
    /\ last.req.kind = "publish" /\ "mount" \in last.eff
    /\ IsMounted(last.req.targetPath)

\* f without the keys in S
Without(f, S) == [k \in DOMAIN f \ S |-> f[k]]

(***************************************************************************)
(* C16: while writeData runs on a freshly mounted target path, the path    *)
(* holds exactly the entries written so far, each file named by its key    *)
(* with the value as body; once every write has succeeded the path holds   *)
(* exactly one file per entry of the map ({a: x, b: y} gives a with x and  *)
(* b with y), in whichever order the entries were taken.                   *)
(***************************************************************************)
C16_OneFilePerEntry ==
    \A c \in Calls :
        At(c, "write")
        => LET p == calls[c].req.targetPath
               Data == calls[c].content.Data
           IN  /\ VisibleFiles(p) = Without(Data, calls[c].todo)
               /\ calls[c].todo = {} => VisibleFiles(p) = [a |-> "x", b |-> "y"]

\* every write of a call has succeeded
C16_Witness ==
    \E c \in Calls :
        /\ At(c, "write") /\ calls[c].todo = {}
        /\ "write" \in calls[c].eff
        /\ DOMAIN VisibleFiles(calls[c].req.targetPath) = {"a", "b"}

\* publish call c fails in this step, before it reaches mount()
FailsBeforeMount(c) ==
    /\ last'.call = c /\ last'.req.kind = "publish"
    /\ calls'[c].pc = "idle"
    /\ Starts(c) \/ At(c, "resolve")
\* call c is in mount() or past it
InOrPastMount(cs) == cs.pc \in {"mount", "mkdir", "mounter", "write"}

(***************************************************************************)
(* C17: a NodePublishVolume call that fails before the mount (request or   *)
(* volume context rejected, secret class empty or not found, pod not       *)
(* found, backend fetch failed) leaves the filesystem, the mount table and *)
(* the pod as they were and has made no directory, mount, file or patch;   *)
(* a failure after the request checks, the backend's included, is an       *)
(* internal error; no call with such a failure gets to the mount.          *)
(***************************************************************************)
C17_FailureBeforeMount ==
    [][\A c \in Calls :
         /\ FailsBeforeMount(c)
            => /\ UNCHANGED <<fs, mounts, pod>>
               /\ last'.eff \cap {"mkdir", "mount", "write", "patch"} = {}
               /\ last'.status.code = IF At(c, "resolve") THEN "Internal"
                                      ELSE "InvalidArgument"
         /\ InOrPastMount(calls'[c])
            => /\ PublishPrecheck(calls'[c].req) = OK
               /\ calls'[c].req.volumeContext = GoodContext
               /\ {"getClass", "getPod", "fetch"} \subseteq calls'[c].eff
               /\ calls'[c].content.Data = SecretData]_vars

\* the backend failed and the target path was not made
C17_Witness ==
    /\ last.req.kind = "publish"
    /\ last.status = Status("Internal", "backend error")
    /\ "fetch" \in last.eff
    /\ ~PathExists(last.req.targetPath)
    /\ ~IsMounted(last.req.targetPath)

\* the steps of NodePublishVolume in the order of the code
StepOrder == <<"idle", "resolve", "mount", "mkdir", "mounter", "write">>
Rank(label) == CHOOSE i \in 1..Len(StepOrder) : StepOrder[i] = label

(***************************************************************************)
(* C18: a NodePublishVolume call goes through its steps in the order of    *)
(* the code, one at a time (checks, secret resolved, mount, one write per  *)
(* file, patch, return); it sends the patch or returns success only from   *)
(* the state where the path is mounted and every file is written; a       *)
(* failed file write returns an internal error and leaves the files        *)
(* written so far, the mount and the pod as they are.                      *)
(***************************************************************************)
C18_StepsInOrder ==
    [][\A c \in Calls :
         LET cs == calls[c]
             p == cs.req.targetPath
         IN  /\ (cs.req.kind = "publish" /\ calls'[c] # cs /\ calls'[c].pc # "idle")
                => \/ Rank(calls'[c].pc) = Rank(cs.pc) + 1
                   \/ /\ cs.pc = "write" /\ calls'[c].pc = "write"
                      /\ \E name \in cs.todo : calls'[c].todo = cs.todo \ {name}
             /\ (Starts(c) /\ NewRequest(c).kind = "publish" /\ calls'[c].pc # "idle")
                => calls'[c].pc = "resolve"
             /\ calls'[c].pc = "write" /\ cs.pc # "write"
                => calls'[c].todo = DOMAIN calls'[c].content.Data
             /\ (/\ Returns(c) /\ cs.req.kind = "publish"
                 /\ last'.status = OK \/ "patch" \in last'.eff)
                => /\ cs.pc = "write" /\ cs.todo = {}
                   /\ {"mkdir", "mount", "write"} \subseteq cs.eff
                   /\ IsMounted(p)
                   /\ VisibleFiles(p) = cs.content.Data
             /\ (Returns(c) /\ cs.pc = "write" /\ cs.todo # {})
                => /\ last'.status = Status("Internal", "write failed")
                   /\ UNCHANGED <<fs, mounts, pod>>
                   /\ "patch" \notin last'.eff]_vars

\* the second write of a call failed: one file is there, the pod is untouched
C18_Witness ==
    /\ last.req.kind = "publish"
    /\ last.status = Status("Internal", "write failed")
    /\ "write" \in last.eff
    /\ IsMounted(last.req.targetPath)
    /\ \E name \in DOMAIN SecretData :
         VisibleFiles(last.req.targetPath) = Without(SecretData, {name})
    /\ pod.annotations = hist.initial

(***************************************************************************)
(* C20: NodePublishVolume undoes nothing. When a call fails after it made  *)
(* the target directory, the directory is still there and so are the mount *)
(* and the files, if it got that far. A publish that finds its target path *)
(* existing is refused at the existence check with the internal error      *)
(* "target path already exists" (or the error of the check itself), so no  *)
(* publish succeeds on a path that was there before it; a directory goes   *)
(* away only in the removal step of a NodeUnpublishVolume on its path.     *)
(***************************************************************************)
C20_NoRollback ==
    [][\A c \in Calls :
         LET cs == calls[c]
             p == cs.req.targetPath
         IN  /\ (/\ Returns(c) /\ cs.req.kind = "publish"
                 /\ last'.status # OK /\ "mkdir" \in cs.eff)
                => /\ fs'[p].exists
                   /\ fs' = fs /\ mounts' = mounts
                   /\ "mount" \in cs.eff => IsMounted(p)
             /\ (At(c, "mount") /\ StepOf(c) /\ PathExists(p))
                => /\ Returns(c)
                   /\ last'.status.code = "Internal"
                   /\ last'.status.msg \in {"target path already exists", "stat failed"}
                   /\ UNCHANGED <<fs, mounts, pod>>
             /\ (Returns(c) /\ cs.req.kind = "publish" /\ last'.status = OK)
                => last'.prior # "published"
             /\ \A q \in Paths :
                  (fs[q].exists /\ ~fs'[q].exists)
                  => \E d \in Calls : RemoveAllStep(d) /\ calls[d].req.targetPath = q]_vars

\* a publish was refused on the mount an earlier, failed publish left behind
C20_Witness ==
    /\ last.req.kind = "publish"
    /\ last.status = Status("Internal", "target path already exists")
    /\ hist.failed
    /\ hist.paths[last.req.targetPath] = "new"
    /\ IsMounted(last.req.targetPath)

(***************************************************************************)
(* C19: the patch updatePod sends carries the expiration key and nothing   *)
(* else, so the step that applies it leaves every other annotation of the  *)
(* stored pod as it was just before, the ones another writer changed after *)
(* this call read the pod included; it never drops the annotation map and  *)
(* the resource version moves by one at most.                              *)
(***************************************************************************)
C19_PatchOnlyExpiration ==
    [][\A c \in Calls :
         UpdatePodStep(c)
         => LET u == updatePod(calls[c].pod, calls[c].content.ExpiresTime)
                before == pod.annotations
                after == pod'.annotations
            IN  /\ DOMAIN u.patch \subseteq {SecretZncdataExpirationTime}
                /\ \A k \in (DOMAIN before.m \cup DOMAIN after.m)
                               \ {SecretZncdataExpirationTime} :
                     /\ k \in DOMAIN before.m /\ k \in DOMAIN after.m
                     /\ after.m[k] = before.m[k]
                /\ after.isNil => before.isNil
                /\ pod'.resourceVersion \in
                     {pod.resourceVersion, pod.resourceVersion + 1}]_vars

\* the only call issued read owner "a"; the other writer then set "b"; the
\* call's patch added the expiration and "b" is still there
C19_Witness ==
    /\ issued = 1
    /\ last.req.kind = "publish" /\ last.status = OK /\ "patch" \in last.eff
    /\ hist.initial = MakeMap([owner |-> <<"a">>])
    /\ HasExpiration(pod.annotations)
    /\ pod.annotations.m["owner"] = <<"b">>

====
